---- MODULE Spec2Model ----
(***************************************************************************)
(* A caching reverse proxy.                                                *)
(*                                                                         *)
(*  - the in-memory Cache of README.md (an LRU of CacheEntry values with   *)
(*    a TTL, guarded by a sync.RWMutex), used by concurrent workers:       *)
(*    specification SpecCache;                                             *)
(*  - the proxy process of main.go (no cache) and of the Redis-backed      *)
(*    handler (startup, handleRequest, the Redis store): specification     *)
(*    Spec, and SpecFair, in which every handler that can take a step      *)
(*    takes one.                                                           *)
(***************************************************************************)
EXTENDS Integers, Sequences, FiniteSets, TLC

(***************************************************************************)
(* Bounds of the model.                                                    *)
(***************************************************************************)
\* NewCache(size, ttl) is called with a size in 1..MaxCacheSize (lru.New
\* refuses a size below 1)
MaxCacheSize == 2
\* concurrent callers of Cache.Get / Cache.Set
NumWorkers == 2
\* the clock advances in steps of ClockStep seconds, up to MaxTime
ClockStep == 300
MaxTime == 600
\* concurrent executions of handleRequest
NumHandlers == 2
\* requests the server accepts in a run
MaxRequests == 2

(***************************************************************************)
(* Program constants.                                                      *)
(***************************************************************************)
\* NewProxyServer(..., 5*time.Minute): the cache's ttl, in seconds
CacheTTL == 300
\* Set(cache.Ctx, targetURL, body, 300*time.Second)
RedisTTL == 300
\* http.StatusBadGateway, http.StatusInternalServerError, and the status
\* of a response written without WriteHeader
StatusBadGateway == 502
StatusInternalServerError == 500
StatusOK == 200

Workers == 1..NumWorkers
\* one key more than the largest cache can hold, so that an insertion can evict
CacheKeys == 1..(MaxCacheSize + 1)
\* the response bodies a caller may store
Values == {"b1", "b2"}

NoKey == 0
NoValue == "none"
\* the zero CacheEntry: what a caller holds before c.lru.Get answered
NoEntry == [Response |-> NoValue, Expires |-> -1]
\* no Get has returned yet
NoRet == [done |-> FALSE, found |-> FALSE, value |-> NoValue]

VARIABLES
    now,        \* time.Now(), in seconds
    size,       \* Cache.size: the capacity the cache was constructed with
    lru,        \* Cache.lru: [items: key -> CacheEntry, evictList: keys, most recent first]
    mu,         \* Cache.mu: [writer: the worker holding Lock (0: none), readers: the workers holding RLock]
    wpc,        \* each worker's position in Set / Get
    wkey,       \* each worker's argument key
    wval,       \* each worker's argument response (Set)
    wentry,     \* each worker's local `entry` (Get), read from c.lru.Get
    wnow,       \* the time.Now() each worker's Get compared with entry.Expires (-1: none)
    wret,       \* what each worker's Get returned
    useOrder,   \* history: the keys held, most recently used first (a use is a Set or a Get that found the key)
    scen,       \* history: how far the run so far is exactly one of the scenarios below (Scen...); -1: it is none
    stored      \* history: for each key held, the entry that the last Set of the key wrote

cacheVars == <<size, lru, mu, wpc, wkey, wval, wentry, wnow, wret, useOrder, scen, stored>>

VARIABLES
    build,        \* which main package runs: "plain" (main.go) or "redis" (the Redis-backed one)
    originServer, \* the --origin flag
    phase,        \* main: "boot", "initRedis", "serving" (ListenAndServe) or "exited"
    ping,         \* how initRedis's Ping went: "none" (not yet), "ok" or "failed"
    redis,        \* the Redis store: targetURL -> entry
    hpc,          \* each handler's position in handleRequest
    hreq,         \* each handler's inbound request r
    hout,         \* each handler's outbound request to the origin
    hfetch,       \* what http.Get gave each handler: resp, err
    hresp,        \* what each handler wrote to w
    hlook,        \* history: whether Redis answered each handler's lookup, and whether the key was live then
    accepted      \* history: the number of requests accepted so far

proxyVars == <<build, originServer, phase, ping, redis, hpc, hreq, hout, hfetch, hresp,
               hlook, accepted>>

(***************************************************************************)
(* Sequences of keys.                                                      *)
(***************************************************************************)
SeqWithout(s, k) == SelectSeq(s, LAMBDA x : x # k)

SeqSet(s) == {s[i] : i \in 1..Len(s)}

\* list.MoveToFront
MoveToFront(s, k) == <<k>> \o SeqWithout(s, k)

Restrict(f, S) == [x \in S |-> f[x]]

(***************************************************************************)
(* golang-lru, as the Cache uses it.  Each operation of lru.Cache runs     *)
(* under the library's own lock, so each is one atomic step.               *)
(***************************************************************************)
lruEmpty == [items |-> <<>>, evictList |-> <<>>]

lruKeys(c) == DOMAIN c.items

\* a removeElement that forgets the list
removeElementMapOnly(c, k) ==
    [items |-> Restrict(c.items, DOMAIN c.items \ {k}),
     evictList |-> c.evictList]

\* LRU.removeElement: off the list and out of the map
removeElement(c, k) ==
    [items |-> Restrict(c.items, DOMAIN c.items \ {k}),
     evictList |-> SeqWithout(c.evictList, k)]

\* LRU.removeOldest: the back of the list
removeOldest(c) ==
    IF Len(c.evictList) = 0 THEN c
    ELSE removeElement(c, c.evictList[Len(c.evictList)])

\* an Add that never evicts
lruAddNoEvict(c, cap, key, value) ==
    IF key \in DOMAIN c.items
    THEN [items |-> [c.items EXCEPT ![key] = value],
          evictList |-> MoveToFront(c.evictList, key)]
    ELSE [items |-> [k \in DOMAIN c.items \cup {key} |->
                       IF k = key THEN value ELSE c.items[k]],
          evictList |-> <<key>> \o c.evictList]

\* an Add that leaves the entry of a key it already holds as it is
lruAddKeepsOld(c, cap, key, value) ==
    IF key \in DOMAIN c.items
    THEN [items |-> c.items, evictList |-> MoveToFront(c.evictList, key)]
    ELSE LET added == [items |-> [k \in DOMAIN c.items \cup {key} |->
                                    IF k = key THEN value ELSE c.items[k]],
                       evictList |-> <<key>> \o c.evictList]
         IN  IF Len(added.evictList) > cap THEN removeOldest(added) ELSE added

\* an Add that replaces the value of a key it already holds where it stands
\* in the list
lruAddNoPromote(c, cap, key, value) ==
    IF key \in DOMAIN c.items
    THEN [items |-> [c.items EXCEPT ![key] = value], evictList |-> c.evictList]
    ELSE LET added == [items |-> [k \in DOMAIN c.items \cup {key} |->
                                    IF k = key THEN value ELSE c.items[k]],
                       evictList |-> <<key>> \o c.evictList]
         IN  IF Len(added.evictList) > cap THEN removeOldest(added) ELSE added

\* an Add that overwrites the response of a key it already holds and leaves
\* the rest of the entry
lruAddKeepsExpiry(c, cap, key, value) ==
    IF key \in DOMAIN c.items
    THEN [items |-> [c.items EXCEPT ![key] = [@ EXCEPT !.Response = value.Response]],
          evictList |-> MoveToFront(c.evictList, key)]
    ELSE LET added == [items |-> [k \in DOMAIN c.items \cup {key} |->
                                    IF k = key THEN value ELSE c.items[k]],
                       evictList |-> <<key>> \o c.evictList]
         IN  IF Len(added.evictList) > cap THEN removeOldest(added) ELSE added

\* c.lru.Add(key, value): replace and promote, or insert at the front and
\* evict the oldest when the list outgrows size
lruAdd(c, cap, key, value) ==
    IF key \in DOMAIN c.items
    THEN [items |-> [c.items EXCEPT ![key] = value],
          evictList |-> MoveToFront(c.evictList, key)]
    ELSE LET added == [items |-> [k \in DOMAIN c.items \cup {key} |->
                                    IF k = key THEN value ELSE c.items[k]],
                       evictList |-> <<key>> \o c.evictList]
         IN  IF Len(added.evictList) > cap THEN removeOldest(added) ELSE added

\* a Get that leaves the recency order alone (a Peek)
lruGetNoPromote(c, key) == c

\* a Get that also renews the expiry of the entry it finds
lruGetRenews(c, key) ==
    IF key \in DOMAIN c.items
    THEN [items |-> [c.items EXCEPT ![key] = [@ EXCEPT !.Expires = now + CacheTTL]],
          evictList |-> MoveToFront(c.evictList, key)]
    ELSE c

\* c.lru.Get(key): the cache after the lookup (a found key moves to the front)
lruGet(c, key) ==
    IF key \in DOMAIN c.items
    THEN [items |-> c.items, evictList |-> MoveToFront(c.evictList, key)]
    ELSE c

\* c.lru.Remove(key)
lruRemove(c, key) ==
    IF key \in DOMAIN c.items THEN removeElement(c, key) ELSE c

(***************************************************************************)
(* Cache (README.md, Step 2).                                              *)
(***************************************************************************)
\* time.Now().Add(c.ttl)
ExpiresAt(t) == t + CacheTTL

\* an expiry test that also fires at the very instant of expiry
ExpiredAtOrAfter(t, entry) == t >= entry.Expires

\* time.Now().After(entry.Expires)
Expired(t, entry) == t > entry.Expires

\* sync.RWMutex: Lock waits for the writer and for every reader, RLock for
\* the writer only
CanLock == mu.writer = 0 /\ mu.readers = {}
CanRLock == mu.writer = 0

\* history of uses: k becomes the most recently used key; keys no longer
\* held drop out
Used(order, k, held) == SelectSeq(<<k>> \o SeqWithout(order, k), LAMBDA x : x \in held)

\* history of two scenarios on a cache of capacity size, both starting with
\* Set(1)..Set(size), which leaves scen = size:
\*   Get(1) (hit): ScenPromoted;  then Set(size+1): ScenPromotedThenNew
\*   Set(1) again: ScenReplaced;  then Set(size+1): ScenReplacedThenNew,
\*                                 or Get(1) (hit): ScenReplacedThenHit
ScenPromoted == size + 1
ScenPromotedThenNew == size + 2
ScenReplaced == size + 3
ScenReplacedThenNew == size + 4
ScenReplacedThenHit == size + 5

ScenAfterSet(k) ==
    IF scen \in 0..(size - 1) /\ k = scen + 1 THEN scen + 1
    ELSE IF scen = ScenPromoted /\ k = size + 1 THEN ScenPromotedThenNew
    ELSE IF scen = size /\ k = 1 THEN ScenReplaced
    ELSE IF scen = ScenReplaced /\ k = size + 1 THEN ScenReplacedThenNew
    ELSE -1
ScenAfterHit(k) ==
    IF scen = size /\ k = 1 THEN ScenPromoted
    ELSE IF scen = ScenReplaced /\ k = 1 THEN ScenReplacedThenHit
    ELSE -1

\* history of what the Sets wrote: key holds entry now, and the keys no
\* longer held drop out
StoredAfterSet(st, key, entry, held) ==
    [k \in held |-> IF k = key THEN entry ELSE st[k]]

\* a worker calls c.Set(key, response): c.mu.Lock()
SetLock(w, k, v) ==
    /\ wpc[w] = "idle"
    /\ CanLock
    /\ mu' = [mu EXCEPT !.writer = w]
    /\ wpc' = [wpc EXCEPT ![w] = "set_add"]
    /\ wkey' = [wkey EXCEPT ![w] = k]
    /\ wval' = [wval EXCEPT ![w] = v]
    /\ UNCHANGED proxyVars
    /\ UNCHANGED <<now, size, lru, wentry, wnow, wret, useOrder, scen, stored>>

\* c.lru.Add(key, CacheEntry{response, time.Now().Add(c.ttl)}), and the
\* deferred c.mu.Unlock()
SetAdd(w) ==
    /\ wpc[w] = "set_add"
    /\ lru' = lruAdd(lru, size, wkey[w],
                     [Response |-> wval[w], Expires |-> ExpiresAt(now)])
    /\ useOrder' = Used(useOrder, wkey[w], lruKeys(lru'))
    /\ scen' = ScenAfterSet(wkey[w])
    /\ stored' = StoredAfterSet(stored, wkey[w],
                                [Response |-> wval[w], Expires |-> ExpiresAt(now)],
                                lruKeys(lru'))
    /\ mu' = [mu EXCEPT !.writer = 0]
    /\ wpc' = [wpc EXCEPT ![w] = "idle"]
    /\ wkey' = [wkey EXCEPT ![w] = NoKey]
    /\ wval' = [wval EXCEPT ![w] = NoValue]
    /\ UNCHANGED proxyVars
    /\ UNCHANGED <<now, size, wentry, wnow, wret>>

\* a worker calls c.Get(key): c.mu.RLock().  The key is the caller's own
\* until the lookup, where the model draws it
GetRLock(w) ==
    /\ wpc[w] = "idle"
    /\ CanRLock
    /\ mu' = [mu EXCEPT !.readers = @ \cup {w}]
    /\ wpc' = [wpc EXCEPT ![w] = "get_lookup"]
    /\ UNCHANGED proxyVars
    /\ UNCHANGED <<now, size, lru, wkey, wval, wentry, wnow, wret, useOrder, scen, stored>>

\* value, ok := c.lru.Get(key); if !ok { return nil, false };
\* entry := value.(CacheEntry); if time.Now().After(entry.Expires) {...};
\* return entry.Response, true
GetLookup(w, k) ==
    /\ wpc[w] = "get_lookup"
    /\ wkey' = [wkey EXCEPT ![w] = k]
    /\ lru' = lruGet(lru, k)
    /\ IF k \notin lruKeys(lru)
       THEN /\ wret' = [wret EXCEPT ![w] = [done |-> TRUE, found |-> FALSE, value |-> NoValue]]
            /\ wpc' = [wpc EXCEPT ![w] = "get_ret"]
            /\ scen' = -1
            /\ UNCHANGED <<wentry, wnow, useOrder>>
       ELSE /\ wentry' = [wentry EXCEPT ![w] = lru.items[k]]
            /\ wnow' = [wnow EXCEPT ![w] = now]
            /\ useOrder' = Used(useOrder, k, lruKeys(lru))
            /\ IF Expired(now, lru.items[k])
               THEN /\ wpc' = [wpc EXCEPT ![w] = "get_remove"]
                    /\ scen' = -1
                    /\ UNCHANGED wret
               ELSE /\ wret' = [wret EXCEPT ![w] = [done |-> TRUE, found |-> TRUE,
                                                     value |-> lru.items[k].Response]]
                    /\ wpc' = [wpc EXCEPT ![w] = "get_ret"]
                    /\ scen' = ScenAfterHit(k)
    /\ UNCHANGED proxyVars
    /\ UNCHANGED <<now, size, mu, wval, stored>>

\* c.lru.Remove(key); return nil, false
GetRemove(w) ==
    /\ wpc[w] = "get_remove"
    /\ lru' = lruRemove(lru, wkey[w])
    /\ useOrder' = SeqWithout(useOrder, wkey[w])
    /\ stored' = Restrict(stored, DOMAIN stored \cap lruKeys(lru'))
    /\ wret' = [wret EXCEPT ![w] = [done |-> TRUE, found |-> FALSE, value |-> NoValue]]
    /\ wpc' = [wpc EXCEPT ![w] = "get_ret"]
    /\ UNCHANGED proxyVars
    /\ UNCHANGED <<now, size, mu, wkey, wval, wentry, wnow, scen>>

\* the deferred c.mu.RUnlock(), as Get returns to its caller
GetRUnlock(w) ==
    /\ wpc[w] = "get_ret"
    /\ mu' = [mu EXCEPT !.readers = @ \ {w}]
    /\ wpc' = [wpc EXCEPT ![w] = "idle"]
    /\ wkey' = [wkey EXCEPT ![w] = NoKey]
    /\ wentry' = [wentry EXCEPT ![w] = NoEntry]
    /\ wnow' = [wnow EXCEPT ![w] = -1]
    /\ wret' = [wret EXCEPT ![w] = NoRet]
    /\ UNCHANGED proxyVars
    /\ UNCHANGED <<now, size, lru, wval, useOrder, scen, stored>>

(***************************************************************************)
(* The proxy: main.go (no cache) and the Redis-backed main package.        *)
(* Strings that the code concatenates are sequences of tokens.             *)
(***************************************************************************)
Handlers == 1..NumHandlers

\* a value of the --origin flag that names a server
Origin == <<"http://origin">>

NoBody == [of |-> <<>>, read |-> "none"]
NoReq == [method |-> "", path |-> <<>>, query |-> <<>>, header |-> {}, body |-> ""]
NoOut == [method |-> "", url |-> <<>>, header |-> {}, body |-> ""]
NoFetch == [called |-> FALSE, err |-> FALSE, status |-> 0, header |-> {},
            body |-> NoBody, readErr |-> FALSE]
NoResp == [state |-> "none", status |-> 0, header |-> {}, body |-> NoBody]
NoLook == [looked |-> FALSE, up |-> FALSE, live |-> FALSE]
NoSrc == [req |-> NoReq, status |-> 0, header |-> {}]
RedisNil == [present |-> FALSE, value |-> NoBody, expireAt |-> -1, src |-> NoSrc]

\* the inbound requests: r.Method, r.URL.Path, r.URL.RawQuery, r.Header, r.Body
Requests ==
    { [method |-> "GET",  path |-> <<"/a">>, query |-> <<>>,            header |-> {},               body |-> ""],
      [method |-> "GET",  path |-> <<"/a">>, query |-> <<"?", "x=1">>, header |-> {"Accept"},       body |-> ""],
      [method |-> "POST", path |-> <<"/b">>, query |-> <<>>,            header |-> {"Content-Type"}, body |-> "data"] }

\* the keys the store can hold
RedisKeys == {Origin \o r.path : r \in Requests}

\* targetURL := originServer + r.URL.Path
TargetURL(r) == originServer \o r.path

\* the key handleRequest hands to Get and to Set: targetURL
CacheKey(r) == TargetURL(r)

\* http.Get(targetURL): the request that goes out
HttpGet(url) == [method |-> "GET", url |-> url, header |-> {}, body |-> ""]

\* the paths the origin has a resource for
OriginPaths == {<<"/a">>}

\* what the origin may answer to an outbound request: for a resource it has,
\* a 200 whose body is its content for that method and URL, read in full or
\* cut short by a read error; for any other URL, a 404
OriginResponses(out) ==
    IF \E p \in OriginPaths : out.url = Origin \o p
    THEN { [called |-> TRUE, err |-> FALSE, status |-> StatusOK, header |-> {"Content-Type"},
            body |-> [of |-> <<out.method>> \o out.url, read |-> "full"], readErr |-> FALSE],
           [called |-> TRUE, err |-> FALSE, status |-> StatusOK, header |-> {"Content-Type"},
            body |-> [of |-> <<out.method>> \o out.url, read |-> "partial"], readErr |-> TRUE] }
    ELSE { [called |-> TRUE, err |-> FALSE, status |-> 404, header |-> {"X-Reason"},
            body |-> [of |-> <<out.method>> \o out.url, read |-> "full"], readErr |-> FALSE] }

\* http.Get failed: resp is nil, err is not
TransportError == [NoFetch EXCEPT !.called = TRUE, !.err = TRUE]

\* http.Error(w, msg, code)
HttpError(msg, code) ==
    [status |-> code, header |-> {"Content-Type", "X-Content-Type-Options"},
     body |-> [of |-> <<msg>>, read |-> "text"]]

\* GetClient().Get(Ctx, key).Result(): the answers Redis may give.  err is
\* "" (nil) with the value of a live key, "nil" (redis.Nil) for a key that
\* is absent or expired, "down" when the server does not answer.  At the
\* very instant of expiry either answer is possible.
RedisGet(store, up, t, key) ==
    IF ~up THEN {[err |-> "down", val |-> NoBody]}
    ELSE IF ~store[key].present THEN {[err |-> "nil", val |-> NoBody]}
    ELSE (IF t <= store[key].expireAt THEN {[err |-> "", val |-> store[key].value]} ELSE {})
         \cup (IF t >= store[key].expireAt THEN {[err |-> "nil", val |-> NoBody]} ELSE {})

\* Redis drops a key it found expired
RedisAfterGet(store, key, res) ==
    IF res.err = "nil" THEN [store EXCEPT ![key] = RedisNil] ELSE store

\* GetClient().Set(Ctx, key, value, ttl): stored when the server answers;
\* the caller drops the error
RedisSet(store, up, t, key, value, ttl, src) ==
    IF up
    THEN [store EXCEPT ![key] = [present |-> TRUE, value |-> value,
                                 expireAt |-> t + ttl, src |-> src]]
    ELSE store

\* main: flag.Parse(); if originServer == "" { os.Exit(1) }
MainCheckOrigin ==
    /\ phase = "boot"
    /\ phase' = IF originServer = <<>> THEN "exited"
                ELSE IF build = "redis" THEN "initRedis" ELSE "serving"
    /\ UNCHANGED <<now, cacheVars, build, originServer, ping, redis, hpc, hreq, hout,
                   hfetch, hresp, hlook, accepted>>

\* an initRedis that reports a failed ping and returns without panicking
InitRedisNoPanic(up) ==
    /\ phase = "initRedis"
    /\ ping' = IF up THEN "ok" ELSE "failed"
    /\ phase' = "serving"
    /\ UNCHANGED <<now, cacheVars, build, originServer, redis, hpc, hreq, hout,
                   hfetch, hresp, hlook, accepted>>

\* initRedis: client.Ping(ctx).Err() != nil panics; then ListenAndServe.
\* up: whether the Redis server answers the ping
InitRedis(up) ==
    /\ phase = "initRedis"
    /\ ping' = IF up THEN "ok" ELSE "failed"
    /\ phase' = IF up THEN "serving" ELSE "exited"
    /\ UNCHANGED <<now, cacheVars, build, originServer, redis, hpc, hreq, hout,
                   hfetch, hresp, hlook, accepted>>

\* if err == nil: the lookup is a hit
IsHit(res) == res.err = ""

\* the server hands a request to handleRequest
Accept(h, r) ==
    /\ phase = "serving"
    /\ hpc[h] = "idle"
    /\ accepted < MaxRequests
    /\ accepted' = accepted + 1
    /\ hreq' = [hreq EXCEPT ![h] = r]
    /\ hpc' = [hpc EXCEPT ![h] = IF build = "redis" THEN "lookup" ELSE "fetch"]
    /\ UNCHANGED <<now, cacheVars, build, originServer, phase, ping, redis, hout,
                   hfetch, hresp, hlook>>

\* a lookup whose hit branch lacks the return: it goes on to the fetch
LookupNoReturn(h, up) ==
    /\ hpc[h] = "lookup"
    /\ \E res \in RedisGet(redis, up, now, CacheKey(hreq[h])) :
          /\ redis' = RedisAfterGet(redis, CacheKey(hreq[h]), res)
          /\ hresp' = IF IsHit(res)
                      THEN [hresp EXCEPT ![h] =
                              [state |-> "none", status |-> StatusOK,
                               header |-> {}, body |-> res.val]]
                      ELSE hresp
          /\ hpc' = [hpc EXCEPT ![h] = "fetch"]
    /\ hlook' = [hlook EXCEPT ![h] =
                   [looked |-> TRUE, up |-> up,
                    live |-> /\ redis[CacheKey(hreq[h])].present
                             /\ now < redis[CacheKey(hreq[h])].expireAt]]
    /\ UNCHANGED <<now, cacheVars, build, originServer, phase, ping, hreq, hout,
                   hfetch, accepted>>

\* a lookup that takes only redis.Nil for a miss: any other error of Get
\* ends the request with a 500
LookupBackendErrorFatal(h, up) ==
    /\ hpc[h] = "lookup"
    /\ \E res \in RedisGet(redis, up, now, CacheKey(hreq[h])) :
          /\ redis' = RedisAfterGet(redis, CacheKey(hreq[h]), res)
          /\ IF IsHit(res)
             THEN /\ hresp' = [hresp EXCEPT ![h] =
                                 [state |-> "served-from-cache", status |-> StatusOK,
                                  header |-> {}, body |-> res.val]]
                  /\ hpc' = [hpc EXCEPT ![h] = "done"]
             ELSE IF res.err = "down"
             THEN /\ hresp' = [hresp EXCEPT ![h] =
                                 [state |-> "cache-failed"] @@
                                 HttpError("Error contacting cache", StatusInternalServerError)]
                  /\ hpc' = [hpc EXCEPT ![h] = "done"]
             ELSE /\ hpc' = [hpc EXCEPT ![h] = "fetch"]
                  /\ UNCHANGED hresp
    /\ hlook' = [hlook EXCEPT ![h] =
                   [looked |-> TRUE, up |-> up,
                    live |-> /\ redis[CacheKey(hreq[h])].present
                             /\ now < redis[CacheKey(hreq[h])].expireAt]]
    /\ UNCHANGED <<now, cacheVars, build, originServer, phase, ping, hreq, hout,
                   hfetch, accepted>>

\* cachedResponse, err := Get(targetURL).Result();
\* if err == nil { w.Write([]byte(cachedResponse)); return }
\* up: whether the Redis server answers this call
Lookup(h, up) ==
    /\ hpc[h] = "lookup"
    /\ \E res \in RedisGet(redis, up, now, CacheKey(hreq[h])) :
          /\ redis' = RedisAfterGet(redis, CacheKey(hreq[h]), res)
          /\ IF IsHit(res)
             THEN /\ hresp' = [hresp EXCEPT ![h] =
                                 [state |-> "served-from-cache", status |-> StatusOK,
                                  header |-> {}, body |-> res.val]]
                  /\ hpc' = [hpc EXCEPT ![h] = "done"]
             ELSE /\ hpc' = [hpc EXCEPT ![h] = "fetch"]
                  /\ UNCHANGED hresp
    /\ hlook' = [hlook EXCEPT ![h] =
                   [looked |-> TRUE, up |-> up,
                    live |-> /\ redis[CacheKey(hreq[h])].present
                             /\ now < redis[CacheKey(hreq[h])].expireAt]]
    /\ UNCHANGED <<now, cacheVars, build, originServer, phase, ping, hreq, hout,
                   hfetch, accepted>>

\* a failure path that also stores the error page under the key
FetchFailCached(h) ==
    /\ hpc[h] = "fetch"
    /\ hout' = [hout EXCEPT ![h] = HttpGet(TargetURL(hreq[h]))]
    /\ hfetch' = [hfetch EXCEPT ![h] = TransportError]
    /\ hresp' = [hresp EXCEPT ![h] =
                   [state |-> "upstream-failed"] @@
                   HttpError("Error contacting origin server", StatusBadGateway)]
    /\ redis' = RedisSet(redis, TRUE, now, CacheKey(hreq[h]),
                         [of |-> <<"Error contacting origin server">>, read |-> "text"],
                         RedisTTL, [req |-> hreq[h], status |-> StatusBadGateway, header |-> {}])
    /\ hpc' = [hpc EXCEPT ![h] = "done"]
    /\ UNCHANGED <<now, cacheVars, build, originServer, phase, ping, hreq, hlook, accepted>>

\* resp, err := http.Get(targetURL); if err != nil {
\*   http.Error(w, "Error contacting origin server", http.StatusBadGateway); return }
FetchFail(h) ==
    /\ hpc[h] = "fetch"
    /\ hout' = [hout EXCEPT ![h] = HttpGet(TargetURL(hreq[h]))]
    /\ hfetch' = [hfetch EXCEPT ![h] = TransportError]
    /\ hresp' = [hresp EXCEPT ![h] =
                   [state |-> "upstream-failed"] @@
                   HttpError("Error contacting origin server", StatusBadGateway)]
    /\ hpc' = [hpc EXCEPT ![h] = "done"]
    /\ UNCHANGED <<now, cacheVars, build, originServer, phase, ping, redis, hreq,
                   hlook, accepted>>

\* resp, err := http.Get(targetURL), the origin never answering: http.Get is
\* http.DefaultClient.Get, and DefaultClient has no Timeout, so the call does
\* not return and no step of this handler follows
FetchBlocks(h) ==
    /\ hpc[h] = "fetch"
    /\ hout' = [hout EXCEPT ![h] = HttpGet(TargetURL(hreq[h]))]
    /\ hpc' = [hpc EXCEPT ![h] = "blocked"]
    /\ UNCHANGED <<now, cacheVars, build, originServer, phase, ping, redis, hreq,
                   hfetch, hresp, hlook, accepted>>

\* the body as the handler has it after reading resp.Body: io.ReadAll's
\* error is dropped, io.Copy's too
BodyRead(o) == o.body

\* resp, err := http.Get(targetURL) answered: the headers are copied,
\* w.WriteHeader(resp.StatusCode); main.go then copies the body to w,
\* the Redis-backed handler reads it (body, _ := io.ReadAll(resp.Body))
FetchOK(h, o) ==
    /\ hpc[h] = "fetch"
    /\ hout' = [hout EXCEPT ![h] = HttpGet(TargetURL(hreq[h]))]
    /\ o \in OriginResponses(HttpGet(TargetURL(hreq[h])))
    /\ hfetch' = [hfetch EXCEPT ![h] = o]
    /\ IF build = "redis"
       THEN /\ hresp' = [hresp EXCEPT ![h] =
                           [state |-> "none", status |-> o.status, header |-> o.header,
                            body |-> NoBody]]
            /\ hpc' = [hpc EXCEPT ![h] = "populate"]
       ELSE /\ hresp' = [hresp EXCEPT ![h] =
                           [state |-> "served-from-origin", status |-> o.status,
                            header |-> o.header, body |-> BodyRead(o)]]
            /\ hpc' = [hpc EXCEPT ![h] = "done"]
    /\ UNCHANGED <<now, cacheVars, build, originServer, phase, ping, redis, hreq,
                   hlook, accepted>>

\* a populate step that takes the key from a variable the handlers share:
\* it stores the body under the key of any request in progress
PopulateSharedKey(h, up) ==
    /\ hpc[h] = "populate"
    /\ \E g \in Handlers :
          /\ hreq[g] # NoReq
          /\ redis' = RedisSet(redis, up, now, CacheKey(hreq[g]), BodyRead(hfetch[h]), RedisTTL,
                               [req |-> hreq[h], status |-> hfetch[h].status,
                                header |-> hfetch[h].header])
    /\ hresp' = [hresp EXCEPT ![h] = [@ EXCEPT !.state = "served-from-origin",
                                                !.body = BodyRead(hfetch[h])]]
    /\ hpc' = [hpc EXCEPT ![h] = "done"]
    /\ UNCHANGED <<now, cacheVars, build, originServer, phase, ping, hreq, hout,
                   hfetch, hlook, accepted>>

\* Set(targetURL, body, 300*time.Second); w.Write(body)
\* up: whether the Redis server answers this call
Populate(h, up) ==
    /\ hpc[h] = "populate"
    /\ redis' = RedisSet(redis, up, now, CacheKey(hreq[h]), BodyRead(hfetch[h]), RedisTTL,
                         [req |-> hreq[h], status |-> hfetch[h].status,
                          header |-> hfetch[h].header])
    /\ hresp' = [hresp EXCEPT ![h] = [@ EXCEPT !.state = "served-from-origin",
                                                !.body = BodyRead(hfetch[h])]]
    /\ hpc' = [hpc EXCEPT ![h] = "done"]
    /\ UNCHANGED <<now, cacheVars, build, originServer, phase, ping, hreq, hout,
                   hfetch, hlook, accepted>>

\* handleRequest has returned; the handler is free for the next request
Finish(h) ==
    /\ hpc[h] = "done"
    /\ hpc' = [hpc EXCEPT ![h] = "idle"]
    /\ hreq' = [hreq EXCEPT ![h] = NoReq]
    /\ hout' = [hout EXCEPT ![h] = NoOut]
    /\ hfetch' = [hfetch EXCEPT ![h] = NoFetch]
    /\ hresp' = [hresp EXCEPT ![h] = NoResp]
    /\ hlook' = [hlook EXCEPT ![h] = NoLook]
    /\ UNCHANGED <<now, cacheVars, build, originServer, phase, ping, redis, accepted>>

\* time passes
Tick ==
    /\ now + ClockStep <= MaxTime
    /\ now' = now + ClockStep
    /\ UNCHANGED <<cacheVars, proxyVars>>

vars == <<now, cacheVars, proxyVars>>

\* no request has come in, and the store is empty
ProxyIdle ==
    /\ ping = "none"
    /\ redis = [k \in RedisKeys |-> RedisNil]
    /\ hpc = [h \in Handlers |-> "idle"]
    /\ hreq = [h \in Handlers |-> NoReq]
    /\ hout = [h \in Handlers |-> NoOut]
    /\ hfetch = [h \in Handlers |-> NoFetch]
    /\ hresp = [h \in Handlers |-> NoResp]
    /\ hlook = [h \in Handlers |-> NoLook]
    /\ accepted = 0

\* no cache of README.md is in use
CacheIdle ==
    /\ size = 1
    /\ lru = lruEmpty
    /\ mu = [writer |-> 0, readers |-> {}]
    /\ wpc = [w \in Workers |-> "idle"]
    /\ wkey = [w \in Workers |-> NoKey]
    /\ wval = [w \in Workers |-> NoValue]
    /\ wentry = [w \in Workers |-> NoEntry]
    /\ wnow = [w \in Workers |-> -1]
    /\ wret = [w \in Workers |-> NoRet]
    /\ useOrder = <<>>
    /\ scen = 0
    /\ stored = <<>>

\* NewCache(size, ttl)
InitCache ==
    /\ now = 0
    /\ size \in 1..MaxCacheSize
    /\ lru = lruEmpty
    /\ mu = [writer |-> 0, readers |-> {}]
    /\ wpc = [w \in Workers |-> "idle"]
    /\ wkey = [w \in Workers |-> NoKey]
    /\ wval = [w \in Workers |-> NoValue]
    /\ wentry = [w \in Workers |-> NoEntry]
    /\ wnow = [w \in Workers |-> -1]
    /\ wret = [w \in Workers |-> NoRet]
    /\ useOrder = <<>>
    /\ scen = 0
    /\ stored = <<>>
    /\ build = "plain"
    /\ originServer = <<>>
    /\ phase = "exited"
    /\ ProxyIdle

NextCache ==
    \/ \E w \in Workers, k \in CacheKeys, v \in Values : SetLock(w, k, v)
    \/ \E w \in Workers : SetAdd(w)
    \/ \E w \in Workers : GetRLock(w)
    \/ \E w \in Workers, k \in CacheKeys : GetLookup(w, k)
    \/ \E w \in Workers : GetRemove(w)
    \/ \E w \in Workers : GetRUnlock(w)
    \/ Tick

SpecCache == InitCache /\ [][NextCache]_vars

\* the process starts: the flags and the Redis server are as the
\* environment has them
Init ==
    /\ now = 0
    /\ CacheIdle
    /\ build \in {"plain", "redis"}
    /\ originServer \in {<<>>, Origin}
    /\ phase = "boot"
    /\ ping = "none"
    /\ redis = [k \in RedisKeys |-> RedisNil]
    /\ hpc = [h \in Handlers |-> "idle"]
    /\ hreq = [h \in Handlers |-> NoReq]
    /\ hout = [h \in Handlers |-> NoOut]
    /\ hfetch = [h \in Handlers |-> NoFetch]
    /\ hresp = [h \in Handlers |-> NoResp]
    /\ hlook = [h \in Handlers |-> NoLook]
    /\ accepted = 0

Next ==
    \/ MainCheckOrigin
    \/ \E up \in BOOLEAN : InitRedis(up)
    \/ \E h \in Handlers, r \in Requests : Accept(h, r)
    \/ \E h \in Handlers, up \in BOOLEAN : Lookup(h, up)
    \/ \E h \in Handlers : FetchFail(h)
    \/ \E h \in Handlers : FetchBlocks(h)
    \/ \E h \in Handlers, o \in UNION {OriginResponses(HttpGet(Origin \o r.path)) : r \in Requests} :
          FetchOK(h, o)
    \/ \E h \in Handlers, up \in BOOLEAN : Populate(h, up)
    \/ \E h \in Handlers : Finish(h)
    \/ Tick

Spec == Init /\ [][Next]_vars

\* the steps handleRequest takes for one request, once the server has
\* handed it over
HandlerStep(h) ==
    \/ \E up \in BOOLEAN : Lookup(h, up)
    \/ FetchFail(h)
    \/ FetchBlocks(h)
    \/ \E o \in UNION {OriginResponses(HttpGet(Origin \o r.path)) : r \in Requests} :
          FetchOK(h, o)
    \/ \E up \in BOOLEAN : Populate(h, up)
    \/ Finish(h)

\* the Go scheduler runs every goroutine that can run: a handler that has a
\* step to take takes one
SpecFair == Spec /\ \A h \in Handlers : WF_vars(HandlerStep(h))

(***************************************************************************)
(* The claims about the Cache (specification SpecCache).                   *)
(***************************************************************************)
Held == lruKeys(lru)

\* a worker's Set takes effect in this step
SetActs(w) == wpc[w] = "set_add" /\ wpc'[w] = "idle"

\* C2: in every state reached by Set and Get operations on a cache
\* constructed with capacity size, the cache holds at most size entries.
C2_CapacityInvariant ==
    /\ Cardinality(Held) <= size
    /\ Len(lru.evictList) <= size

\* a full cache of the largest size, after a Set of a new key evicted from it
C2_Witness ==
    /\ size = MaxCacheSize
    /\ Cardinality(Held) = size
    /\ scen = ScenPromotedThenNew

\* when Set inserts an absent key into a full cache, exactly the least
\* recently used key goes, a use being a Set or a Get that found the key;
\* no other Set drops a key
EvictsLeastRecentlyUsed ==
    \A w \in Workers :
        SetActs(w) =>
            IF wkey[w] \notin Held /\ Cardinality(Held) = size
            THEN lruKeys(lru') = (Held \ {useOrder[Len(useOrder)]}) \cup {wkey[w]}
            ELSE lruKeys(lru') = Held \cup {wkey[w]}

\* after Set(1)..Set(size), Get(1) (hit), Set(size+1) the cache holds 1 and
\* size+1 and no longer holds 2
ScenarioKeeps1Drops2 ==
    scen' = ScenPromotedThenNew =>
        /\ 1 \in lruKeys(lru')
        /\ (size + 1) \in lruKeys(lru')
        /\ 2 \notin lruKeys(lru')

\* C3, as stated: a Set of an absent key into a full cache evicts exactly the
\* least recently used entry (a Get hit and a Set both count as a use), and
\* for every capacity N, after Set(k1)..Set(kN), Get(k1), Set(k(N+1)) the
\* cache holds k1 and k(N+1) and not k2.
C3_LruEviction_AsStated ==
    [][EvictsLeastRecentlyUsed /\ ScenarioKeeps1Drops2]_vars

\* C3, amended: the same, the scenario for capacities N >= 2 only (with
\* N = 1 the key k2 is k(N+1) itself, and k1 is the entry that goes).
C3_LruEviction ==
    [][EvictsLeastRecentlyUsed /\ (size >= 2 => ScenarioKeeps1Drops2)]_vars

\* the scenario has run to its end on a cache of capacity 2 or more
C3_Witness == size >= 2 /\ scen = ScenPromotedThenNew

\* a Get that found an entry is about to return
GetFound(w) == wpc[w] = "get_ret" /\ wentry[w] # NoEntry

\* C4, as stated: a Get strictly before the entry's expiresAt returns
\* found=true; a Get at or after expiresAt, the instant of expiry included,
\* returns found=false and removes the entry; no Get returns an entry whose
\* expiresAt is in the past.
C4_TtlExpiry_AsStated ==
    \A w \in Workers :
        GetFound(w) =>
            /\ wnow[w] < wentry[w].Expires =>
                  wret[w].found /\ wret[w].value = wentry[w].Response
            /\ wnow[w] >= wentry[w].Expires =>
                  ~wret[w].found /\ wkey[w] \notin Held
            /\ wret[w].found => ~(wentry[w].Expires < wnow[w])

\* C4, amended: a Get up to and including the instant expiresAt returns
\* found=true; a Get strictly after expiresAt returns found=false and
\* removes the entry; no Get returns an entry whose expiresAt is in the past.
C4_TtlExpiry ==
    \A w \in Workers :
        GetFound(w) =>
            /\ wnow[w] <= wentry[w].Expires =>
                  wret[w].found /\ wret[w].value = wentry[w].Response
            /\ wnow[w] > wentry[w].Expires =>
                  ~wret[w].found /\ wkey[w] \notin Held
            /\ wret[w].found => ~(wentry[w].Expires < wnow[w])

\* a Get at the very instant of expiry has found the entry
C4_Witness ==
    \E w \in Workers :
        GetFound(w) /\ wnow[w] = wentry[w].Expires /\ wret[w].found

\* C6: under every interleaving of concurrent Gets and Sets on overlapping
\* keys, the cache holds at most size entries, and the keys of the recency
\* order are exactly the keys of the entry map, each once.
C6_ConcurrencySafety ==
    /\ Cardinality(Held) <= size
    /\ SeqSet(lru.evictList) = Held
    /\ Len(lru.evictList) = Cardinality(Held)

\* two Gets of the same key are both about to remove it, the cache being full
C6_Witness ==
    /\ Cardinality(Held) = size
    /\ \E w1, w2 \in Workers :
          /\ w1 # w2
          /\ wpc[w1] = "get_remove" /\ wpc[w2] = "get_remove"
          /\ wkey[w1] = wkey[w2]

\* the number of times key occurs in the recency order
Occurrences(key) == Cardinality({i \in 1..Len(lru.evictList) : lru.evictList[i] = key})

\* C14: a Set of a key that an earlier Set stored and that the cache still
\* holds leaves the number of held entries as it was, and after every Set
\* the cache holds exactly one entry for the key, with this call's response
\* and an expiry computed from this call's time.
C14_IdempotentReplace ==
    [][\A w \in Workers :
          SetActs(w) =>
              /\ wkey[w] \in Held =>
                    /\ Cardinality(lruKeys(lru')) = Cardinality(Held)
                    /\ lruKeys(lru') = Held
              /\ wkey[w] \in lruKeys(lru')
              /\ Cardinality({i \in 1..Len(lru'.evictList) : lru'.evictList[i] = wkey[w]}) = 1
              /\ lru'.items[wkey[w]] = [Response |-> wval[w], Expires |-> now + CacheTTL]]_vars

\* Set(1) has just been called a second time on a full cache, at a later
\* time than the first
C14_Witness ==
    /\ scen = ScenReplaced
    /\ Cardinality(Held) = size
    /\ Occurrences(1) = 1
    /\ lru.items[1].Expires > CacheTTL

\* a worker's Get changes the shared cache in this step: c.lru.Get found the
\* key and moves it to the front, or c.lru.Remove takes the expired entry out
GetMutates(w) ==
    \/ wpc[w] = "get_lookup" /\ wpc'[w] # "get_lookup" /\ wentry'[w] # NoEntry
    \/ wpc[w] = "get_remove" /\ wpc'[w] # "get_remove"

GetReturnedFound(w) == wpc[w] = "get_ret" /\ wret[w].found

\* C16: under every interleaving of Gets and Sets, every entry the cache
\* holds is, response and expiry together, the entry that one single Set
\* wrote, and a Get that returns a value judged it by the expiry of the same
\* Set: what it read is that Set's entry, whole.
C16_NoTornEntries ==
    /\ \A k \in Held : k \in DOMAIN stored /\ lru.items[k] = stored[k]
    /\ \A w \in Workers :
          (GetReturnedFound(w) /\ wkey[w] \in Held) =>
              [Response |-> wret[w].value, Expires |-> wentry[w].Expires] = stored[wkey[w]]

\* a Get of key 1 has returned the entry of the second of two Sets of key 1
C16_Witness ==
    /\ scen = ScenReplacedThenHit
    /\ \E w \in Workers :
          /\ GetReturnedFound(w)
          /\ wkey[w] = 1
          /\ [Response |-> wret[w].value, Expires |-> wentry[w].Expires] = stored[1]

\* after Set(1)..Set(size), Set(1) again, Set(size+1) the cache holds 1 and
\* size+1 and no longer holds 2
ScenarioReplaceKeeps1 ==
    scen' = ScenReplacedThenNew =>
        /\ 1 \in lruKeys(lru')
        /\ (size + 1) \in lruKeys(lru')
        /\ 2 \notin lruKeys(lru')

\* C17: a Set of a key the cache holds moves the key to the front of the
\* recency order; with a capacity of 2 or more, a Set of a new key into the
\* full cache does not evict the key at the front, so that the key replaced
\* just before is not the victim.
C17_ReplacePromotes ==
    [][\A w \in Workers :
          SetActs(w) =>
              /\ wkey[w] \in Held =>
                    /\ lru'.evictList[1] = wkey[w]
                    /\ SeqWithout(lru'.evictList, wkey[w]) = SeqWithout(lru.evictList, wkey[w])
              /\ (size >= 2 /\ wkey[w] \notin Held /\ Cardinality(Held) = size) =>
                    lru.evictList[1] \in lruKeys(lru')
              /\ size >= 2 => ScenarioReplaceKeeps1]_vars

\* the scenario with the replacing Set has run to its end on a cache of
\* capacity 2 or more
C17_Witness ==
    /\ size >= 2
    /\ scen = ScenReplacedThenNew
    /\ 1 \in Held

\* no step but a Set of the key changes the expiry of an entry that stays in
\* the cache
ExpiryFixedBySet ==
    \A k \in Held \cap lruKeys(lru') :
        lru'.items[k].Expires # lru.items[k].Expires =>
            \E w \in Workers : SetActs(w) /\ wkey[w] = k

\* a worker's Get returns found=true for key k in this step
GetServes(w, k) ==
    wpc[w] = "get_lookup" /\ wpc'[w] = "get_ret" /\ wret'[w].found /\ wkey'[w] = k

\* C18, as stated: the expiry of an entry is fixed by the Set that stored
\* it and changed only by a later Set of the same key, no Get changes it,
\* and an entry stored at time t0 is never served at or after t0 + ttl.
C18_NoSlidingExpiry_AsStated ==
    [][/\ ExpiryFixedBySet
       /\ \A w \in Workers, k \in Held :
             GetServes(w, k) => now < stored[k].Expires]_vars

\* C18, amended: ... and an entry stored at time t0 is never served after
\* t0 + ttl (at the very instant t0 + ttl it still is).
C18_NoSlidingExpiry ==
    [][/\ ExpiryFixedBySet
       /\ \A w \in Workers, k \in Held :
             GetServes(w, k) => now <= stored[k].Expires]_vars

\* an entry has been served twice, the second time later than the first and
\* at the very instant of its expiry, which is still the one its Set gave it
C18_Witness ==
    \E w1, w2 \in Workers :
        /\ GetReturnedFound(w1) /\ GetReturnedFound(w2)
        /\ wkey[w1] = wkey[w2]
        /\ wkey[w1] \in Held
        /\ wnow[w1] < wnow[w2]
        /\ wnow[w2] = stored[wkey[w1]].Expires
        /\ lru.items[wkey[w1]].Expires = stored[wkey[w1]].Expires

(***************************************************************************)
(* The claims about the proxy (specification Spec).                        *)
(***************************************************************************)
\* a handler's lookup ends as a hit in this step
HitActs(h) == hpc[h] = "lookup" /\ hresp'[h].state = "served-from-cache"

\* C1: a hit emits exactly the status, the headers and the body that the
\* miss path emitted for the origin response the entry was populated from.
C1_CacheTransparency ==
    [][\A h \in Handlers :
          HitActs(h) =>
              /\ hresp'[h].status = redis[CacheKey(hreq[h])].src.status
              /\ hresp'[h].header = redis[CacheKey(hreq[h])].src.header
              /\ hresp'[h].body = redis[CacheKey(hreq[h])].value]_vars

\* C5: when the fetch fails with a transport error the handler answers 502,
\* the store is as it was before the fetch, and the process goes on serving:
\* the handler returns, and nothing it does afterwards touches the store.
C5_UpstreamFailureIsolation ==
    [][\A h \in Handlers :
          /\ (hpc[h] = "fetch" /\ hfetch'[h].err) =>
                /\ hresp'[h].state = "upstream-failed"
                /\ hresp'[h].status = StatusBadGateway
                /\ hpc'[h] = "done"
                /\ redis' = redis
                /\ phase' = "serving"
          /\ (hfetch[h].err /\ hpc'[h] # hpc[h]) =>
                /\ hpc'[h] = "idle"
                /\ redis' = redis
                /\ phase' = "serving"]_vars

\* a fetch has failed while the store holds an entry, and the handler has
\* answered
C5_Witness ==
    \E h \in Handlers :
        /\ hfetch[h].err
        /\ hpc[h] = "done"
        /\ \E k \in RedisKeys : redis[k].present

\* C7: when reading the origin's body fails part-way, the caching handler
\* answers 500, sends no partial body and stores nothing.
C7_ReadErrorHandling ==
    [][\A h \in Handlers :
          (build = "redis" /\ hfetch'[h].readErr /\ hpc'[h] = "done" /\ hpc[h] # "done") =>
              /\ hresp'[h].status = StatusInternalServerError
              /\ hresp'[h].body.read # "partial"
              /\ redis' = redis]_vars

\* C8: the cache key is a function of the path and of the query string: a
\* request is served as a hit only from an entry that a request with the
\* same path and the same query string populated (a request that differs in
\* either has another key).
C8_KeyCoversPathAndQuery ==
    [][\A h \in Handlers :
          HitActs(h) =>
              LET by == redis[CacheKey(hreq[h])].src.req
              IN  /\ CacheKey(by) = CacheKey(hreq[h])
                  /\ by.path = hreq[h].path
                  /\ by.query = hreq[h].query]_vars

\* C9: the request that goes out on a miss carries the inbound method, the
\* URL origin + path + query, and the inbound headers and body.
C9_ForwardingFidelity ==
    \A h \in Handlers :
        hfetch[h].called =>
            hout[h] = [method |-> hreq[h].method,
                       url |-> originServer \o hreq[h].path \o hreq[h].query,
                       header |-> hreq[h].header,
                       body |-> hreq[h].body]

\* the handler's request was served from the cache, without a fetch
ServedFromCache(h) ==
    /\ hpc[h] = "done"
    /\ hresp[h].state = "served-from-cache"
    /\ ~hfetch[h].called

\* C10, as stated: once a miss path has stored k, every later request for k
\* whose lookup comes before k's TTL has elapsed is served from the cache and
\* fetches nothing.
C10_RepeatHits_AsStated ==
    \A h \in Handlers : hlook[h].live => ServedFromCache(h)

\* C10, amended: ... is served from the cache and fetches nothing, provided
\* the cache backend answers that request's Get (the entry being there means
\* it answered the Set that stored it).
C10_RepeatHits ==
    \A h \in Handlers : (hlook[h].live /\ hlook[h].up) => ServedFromCache(h)

\* a request found its key live and was served from the cache
C10_Witness ==
    \E h \in Handlers : hlook[h].live /\ hlook[h].up /\ ServedFromCache(h)


\* the handler's lookup was not answered by the cache backend
LookupFailed(h) == hlook[h].looked /\ ~hlook[h].up

\* C11: when the cache backend's Get fails, the handler takes it for a miss:
\* it writes nothing and goes on to the fetch; the request then ends with the
\* origin's status, headers and body when the origin answered, and with an
\* error response only when the fetch itself failed.  Whether or not the backend answers the Set, the
\* populate step ends the request with the origin's response.
C11_BackendFailureIsMiss ==
    [][\A h \in Handlers :
          /\ (hpc[h] = "lookup" /\ hpc'[h] # "lookup" /\ ~hlook'[h].up) =>
                /\ hpc'[h] = "fetch"
                /\ hresp'[h] = NoResp
          /\ (LookupFailed(h) /\ hpc[h] = "fetch" /\ hpc'[h] # "fetch") =>
                /\ hout'[h].url = TargetURL(hreq[h])
                /\ hfetch'[h].called <=> hpc'[h] # "blocked"
                /\ hfetch'[h].err <=> hresp'[h].state = "upstream-failed"
                /\ (hfetch'[h].called /\ ~hfetch'[h].err) =>
                      /\ hpc'[h] = "populate"
                      /\ hresp'[h].status = hfetch'[h].status
                      /\ hresp'[h].header = hfetch'[h].header
          /\ (hpc[h] = "populate" /\ hpc'[h] # "populate") =>
                /\ hpc'[h] = "done"
                /\ hresp'[h] = [state |-> "served-from-origin",
                                 status |-> hfetch[h].status,
                                 header |-> hfetch[h].header,
                                 body |-> hfetch[h].body]]_vars

\* the backend did not answer the lookup of a live key, and the request was
\* served the origin's response
C11_Witness ==
    \E h \in Handlers :
        /\ LookupFailed(h) /\ hlook[h].live
        /\ hpc[h] = "done"
        /\ hresp[h].state = "served-from-origin"
        /\ hresp[h].status = hfetch[h].status


\* the configuration the process started with cannot be served: the origin
\* option is empty, or the cache backend did not answer the startup ping
BadStartup == originServer = <<>> \/ ping = "failed"

\* C12: when the origin option is empty, or the cache backend does not
\* answer the startup connectivity check, the process never reaches the
\* serving state and handles no request: an empty origin ends main at the
\* check of the flag, a failed ping ends it in initRedis; and a process that
\* serves has an origin and, with the Redis backend, an answered ping.
C12_FailFastStartup ==
    /\ BadStartup =>
          /\ phase # "serving"
          /\ accepted = 0
          /\ \A h \in Handlers : hpc[h] = "idle" /\ hresp[h] = NoResp
    /\ originServer = <<>> => phase \in {"boot", "exited"}
    /\ ping = "failed" => phase = "exited"
    /\ phase = "serving" =>
          /\ originServer # <<>>
          /\ build = "redis" => ping = "ok"

\* the origin was given, the backend did not answer the ping, and the
\* process has ended
C12_Witness ==
    /\ build = "redis"
    /\ originServer # <<>>
    /\ ping = "failed"
    /\ phase = "exited"


\* the terminal states of a request
TerminalStates == {"served-from-cache", "upstream-failed", "served-from-origin"}

\* the handler's request has ended in one of the terminal states
Terminated(h) == hpc[h] = "done" /\ hresp[h].state \in TerminalStates

\* C13: every inbound request eventually reaches one of the terminal states
\* served-from-cache, upstream-failed, served-from-origin, also when the
\* origin never answers (the fetch then fails after its timeout).
C13_EveryRequestTerminates ==
    \A h \in Handlers : (hpc[h] \in {"lookup", "fetch"}) ~> Terminated(h)


\* the content the origin has for the target a request for url is fetched
\* from: what a body of it is a body of
ContentOf(url) == <<HttpGet(url).method>> \o HttpGet(url).url

\* C19: in every reachable state, the body stored under a key is a body of
\* the origin's response for the target that the key identifies, stored by
\* a request that has this key; and a request served from the cache is
\* served a body of the origin's response for the target that this request
\* would fetch on a miss.
C19_KeyFetchConsistency ==
    /\ \A k \in RedisKeys :
          redis[k].present =>
              /\ redis[k].value.of = ContentOf(k)
              /\ CacheKey(redis[k].src.req) = k
    /\ \A h \in Handlers :
          hresp[h].state = "served-from-cache" =>
              hresp[h].body.of = ContentOf(TargetURL(hreq[h]))
    /\ \A h \in Handlers :
          hpc[h] = "populate" =>
              /\ hlook[h].looked
              /\ hout[h].url = CacheKey(hreq[h])
              /\ hfetch[h].body.of = ContentOf(CacheKey(hreq[h]))

\* a request was served from the cache the body that another request, with
\* the same target, had fetched and stored
C19_Witness ==
    \E h \in Handlers :
        /\ hpc[h] = "done"
        /\ hresp[h].state = "served-from-cache"
        /\ hresp[h].body.of = ContentOf(TargetURL(hreq[h]))
        /\ redis[CacheKey(hreq[h])].present
        /\ redis[CacheKey(hreq[h])].src.req # hreq[h]

====
